---- MODULE Spec2Model ----
(***************************************************************************)
(* Model of the compression benchmark script: the artifact resolver        *)
(* (createPackageFile), the algorithm registry, the sweep loops of main,   *)
(* chart generation, the report and the process exit.                      *)
(*                                                                         *)
(* Strings are sequences of one-character strings, so that path joins,     *)
(* template strings and slugify are computed character by character.       *)
(***************************************************************************)
EXTENDS Integers, Sequences, FiniteSets, TLC

\* ------------------------------------------------------------------ bounds

\* Longest list of artifact specs a run is configured with.
MaxFiles == 2

\* ----------------------------------------------------------------- strings

RECURSIVE Join(_, _)
\* Array.prototype.join / path.join on already-normal segments.
Join(parts, sep) ==
    IF Len(parts) = 0 THEN <<>>
    ELSE IF Len(parts) = 1 THEN parts[1]
    ELSE parts[1] \o sep \o Join(Tail(parts), sep)

Slash == <<"/">>

\* String.prototype.toLowerCase on the characters the model uses.
toLowerCase(c) ==
    CASE c = "A" -> "a"
      [] c = "B" -> "b"
      [] c = "J" -> "j"
      [] c = "P" -> "p"
      [] c = "Q" -> "q"
      [] c = "T" -> "t"
      [] OTHER -> c

\* The character class [a-z0-9] of slugify's first regular expression.
isAlnum(c) ==
    c \in {"a","b","c","d","e","f","g","h","i","j","k","l","m","n","o","p","q",
           "r","s","t","u","v","w","x","y","z",
           "0","1","2","3","4","5","6","7","8","9"}

RECURSIVE replaceNonAlnumRuns(_)
\* .replace(/[^a-z0-9]+/g, '-'): every maximal run of other characters
\* becomes one dash.
replaceNonAlnumRuns(s) ==
    IF Len(s) = 0 THEN <<>>
    ELSE IF isAlnum(s[1]) THEN <<s[1]>> \o replaceNonAlnumRuns(Tail(s))
    ELSE IF Len(s) > 1 /\ ~isAlnum(s[2]) THEN replaceNonAlnumRuns(Tail(s))
    ELSE <<"-">> \o replaceNonAlnumRuns(Tail(s))

RECURSIVE trimLeadingDashes(_)
trimLeadingDashes(s) ==
    IF Len(s) > 0 /\ s[1] = "-" THEN trimLeadingDashes(Tail(s)) ELSE s

RECURSIVE trimTrailingDashes(_)
trimTrailingDashes(s) ==
    IF Len(s) > 0 /\ s[Len(s)] = "-"
    THEN trimTrailingDashes(SubSeq(s, 1, Len(s) - 1))
    ELSE s

slugify(value) ==
    trimTrailingDashes(trimLeadingDashes(replaceNonAlnumRuns(
        [i \in 1..Len(value) |-> toLowerCase(value[i])])))

\* ------------------------------------------------------------------- paths

repoRoot == <<"/", "r">>

nodeModules == <<"n","o","d","e","_","m","o","d","u","l","e","s">>

packageJson == <<"p","a","c","k","a","g","e",".","j","s","o","n">>

chartsDir == Join(<<repoRoot, <<"c","h","a","r","t","s">>>>, Slash)

readmePath == Join(<<repoRoot, <<"R","E","A","D","M","E",".","m","d">>>>, Slash)

\* path.relative(repoRoot, p) for a path p below repoRoot.
relativeToRepoRoot(p) == SubSeq(p, Len(repoRoot) + 2, Len(p))

\* require.resolve(request, {paths: [repoRoot]}) for "<package>/package.json":
\* the file below repoRoot/node_modules.
requireResolvePath(packageName) ==
    Join(<<repoRoot, nodeModules, packageName, packageJson>>, Slash)

\* Whether require.resolve finds the package (it throws MODULE_NOT_FOUND
\* otherwise).
packageInstalled(fsys, packageName) == requireResolvePath(packageName) \in fsys

\* resolvePackageFile, when require.resolve succeeds: packageRoot is the
\* directory of the resolved package.json.
resolvePackageFile(packageName, pathSegments) ==
    LET packageJsonPath == requireResolvePath(packageName)
        packageRoot == SubSeq(packageJsonPath, 1,
                              Len(packageJsonPath) - Len(packageJson) - 1)
    IN  Join(<<packageRoot>> \o pathSegments, Slash)

\* --------------------------------------------------------------- artifacts

\* A null entry of a candidates array.
Null == [null |-> TRUE]

\* One pathSegments entry with a top-level displayName (jquery, react, ...).
SpecJquery ==
    [id |-> "jquery",
     displayName |-> <<"p","/","d","/","a",".","j">>,
     packageName |-> <<"p">>,
     pathSegments |-> << <<"d">>, <<"a",".","j">> >>]

\* A top-level displayName and candidates that declare none (noto-sans-jp):
\* the file moved one directory deeper in newer releases of the package.
SpecNoto ==
    [id |-> "noto-sans-jp",
     displayName |-> <<"@","q","/","n","/","b",".","t">>,
     packageName |-> <<"@","q","/","n">>,
     candidates |-> << [pathSegments |-> << <<"4">>, <<"b",".","t">> >>],
                       [pathSegments |-> << <<"b",".","t">> >>] >>]

\* No top-level displayName, every candidate declares its own
\* (tailwind-config).
SpecTailwind ==
    [id |-> "tailwind-config",
     packageName |-> <<"t">>,
     candidates |-> << [pathSegments |-> << <<"s">>, <<"c",".","j">> >>,
                        displayName |-> <<"t","/","s","/","c",".","j">>],
                       [pathSegments |-> << <<"t",".","c">> >>,
                        displayName |-> <<"t","/","t",".","c">>] >>]

\* A candidates array holding a null entry; another file of package p,
\* whose display name differs from SpecJquery's only in case and punctuation.
SpecOptional ==
    [id |-> "optional",
     packageName |-> <<"p">>,
     candidates |-> << Null,
                       [pathSegments |-> << <<"d">>, <<"a","-","j">> >>,
                        displayName |-> <<"P","/","d","/","a","-","j">>] >>]

ArtifactSpecs == {SpecJquery, SpecNoto, SpecTailwind, SpecOptional}

\* Boolean(candidate) of .filter(Boolean).
isTruthy(candidate) == "null" \notin DOMAIN candidate

\* The candidates a spec declares, before filter and map: the candidates
\* array, or (candidates ?? [...]) the one {pathSegments, displayName} entry.
declaredCandidates(spec) ==
    IF "candidates" \in DOMAIN spec THEN spec.candidates
    ELSE IF "displayName" \in DOMAIN spec
         THEN << [pathSegments |-> spec.pathSegments,
                  displayName |-> spec.displayName] >>
         ELSE << [pathSegments |-> spec.pathSegments] >>

\* `${packageName}/${candidate.pathSegments.join('/')}`
derivedDisplayName(packageName, pathSegments) ==
    packageName \o Slash \o Join(pathSegments, Slash)

\* candidate.displayName ?? `${packageName}/${...}`
candidateDisplayName(spec, candidate) ==
    IF "displayName" \in DOMAIN candidate THEN candidate.displayName
    ELSE derivedDisplayName(spec.packageName, candidate.pathSegments)

\* candidateList: (candidates ?? [...]).filter(Boolean).map(...)
candidateList(spec) ==
    LET kept == SelectSeq(declaredCandidates(spec), isTruthy)
    IN  [i \in 1..Len(kept) |->
            [pathSegments |-> kept[i].pathSegments,
             displayName |-> candidateDisplayName(spec, kept[i])]]

\* A loop that keeps the last existing candidate instead of returning at
\* the first.
winningIndexLast(list, fsys, packageName) ==
    LET existing == {i \in 1..Len(list) :
                       resolvePackageFile(packageName, list[i].pathSegments) \in fsys}
    IN  IF existing = {} THEN 0
        ELSE CHOOSE i \in existing : \A j \in existing : j <= i

\* The for loop of createPackageFile: the index of the first candidate whose
\* absolute path exists, 0 when the loop falls through.
winningIndex(list, fsys, packageName) ==
    LET existing == {i \in 1..Len(list) :
                       resolvePackageFile(packageName, list[i].pathSegments) \in fsys}
    IN  IF existing = {} THEN 0
        ELSE CHOOSE i \in existing : \A j \in existing : i <= j

\* Errors: kind is the message's fixed text, subject the path or package it
\* names, tried the list after "Tried:".
MakeError(kind, subject, tried) ==
    [kind |-> kind, subject |-> subject, tried |-> tried]

\* attempted: path.join(packageName, ...candidate.pathSegments) of every
\* candidate of the list.
attemptedPaths(spec) ==
    LET list == candidateList(spec)
    IN  [i \in 1..Len(list) |->
            Join(<<spec.packageName>> \o list[i].pathSegments, Slash)]

\* createPackageFile: [ok |-> TRUE, file |-> ...] when it returns,
\* [ok |-> FALSE, error |-> ...] when it throws.
createPackageFile(spec, fsys) ==
    LET list == candidateList(spec)
        w == winningIndex(list, fsys, spec.packageName)
    IN  IF Len(list) > 0 /\ ~packageInstalled(fsys, spec.packageName)
        THEN \* require.resolve throws inside the first resolvePackageFile
             [ok |-> FALSE,
              error |-> MakeError("Cannot find module",
                                  Join(<<spec.packageName, packageJson>>, Slash),
                                  <<>>)]
        ELSE IF w # 0
        THEN LET absolutePath ==
                    resolvePackageFile(spec.packageName, list[w].pathSegments)
             IN  [ok |-> TRUE,
                  file |-> [id |-> spec.id,
                            displayName |-> list[w].displayName,
                            absolutePath |-> absolutePath,
                            relativePath |-> relativeToRepoRoot(absolutePath)]]
        ELSE [ok |-> FALSE,
              error |-> MakeError("Required file not found for",
                                  spec.packageName, attemptedPaths(spec))]

\* The files array of scripts/benchmark.js: fixed relative paths below
\* node_modules, no resolution. The entry of the artifact with the same id.
benchmarkFile(spec) ==
    LET entry(displayName, pathSegments) ==
            [id |-> spec.id,
             displayName |-> displayName,
             relativePath |->
                 Join(<<nodeModules, spec.packageName>> \o pathSegments, Slash)]
    IN  CASE spec.id = "noto-sans-jp" ->
               entry(spec.displayName, spec.candidates[2].pathSegments)
          [] spec.id = "tailwind-config" ->
               entry(spec.candidates[1].displayName, spec.candidates[1].pathSegments)
          [] spec.id = "optional" ->
               entry(spec.candidates[2].displayName, spec.candidates[2].pathSegments)
          [] OTHER -> entry(spec.displayName, spec.pathSegments)

\* const absolutePath = ...: file.absolutePath in the resolving script,
\* path.join(repoRoot, file.relativePath) in scripts/benchmark.js.
fileAbsolutePath(file) ==
    IF "absolutePath" \in DOMAIN file THEN file.absolutePath
    ELSE Join(<<repoRoot, file.relativePath>>, Slash)

\* ---------------------------------------------------------------- registry

GzipLevelCount == 9

BrotliLevelCount == 12

ZstdLevelCount == 22

\* An Array.from that starts every range at 1.
levelsFromOne(length, first) == [index \in 1..length |-> index]

\* Array.from({ length }, (_, index) => index + first), index from 0.
levelsFrom(length, first) == [index \in 1..length |-> (index - 1) + first]

algorithms ==
    << [name |-> "gzip", levels |-> levelsFrom(GzipLevelCount, 1)],
       [name |-> "brotli", levels |-> levelsFrom(BrotliLevelCount, 0)],
       [name |-> "zstd", levels |-> levelsFrom(ZstdLevelCount, 1)] >>

\* The stub registry of the end-to-end scenario: one algorithm, levels
\* [1,2,3], compress returning buffers of 500, 400 and 300 bytes.
stubAlgorithms == << [name |-> "stub", levels |-> <<1, 2, 3>>] >>

\* File contents the run may read: length in bytes, and how compressible
\* the bytes are.
Buffers ==
    { [length |-> 0, entropy |-> 1],
      [length |-> 1000, entropy |-> 3] }

\* algorithm.compress(buffer, level).length. zlib is outside the
\* repository: each codec is a deterministic function of (buffer, level)
\* whose output is never empty (frame header and trailer).
compressedLength(name, buffer, level) ==
    LET payload == (buffer.length * buffer.entropy) \div (buffer.entropy + level)
    IN  CASE name = "gzip" -> 20 + payload
          [] name = "brotli" -> 1 + payload
          [] name = "zstd" -> 9 + payload
          [] name = "stub" -> 600 - 100 * level

\* end - start of the two performance.now() calls, in microseconds.
elapsedMicros(name, buffer, level) == (buffer.length \div 100 + 1) * (level + 1)

\* ----------------------------------------------------------------- numbers

RECURSIVE GCD(_, _)
GCD(a, b) == IF b = 0 THEN a ELSE GCD(b, a % b)

\* A JavaScript number that is a quotient of two non-negative integers, in
\* lowest terms; den = 0 is Infinity (num = 1) or NaN (num = 0).
Quotient(a, b) ==
    IF b = 0 THEN [num |-> IF a = 0 THEN 0 ELSE 1, den |-> 0]
    ELSE LET g == GCD(a, b) IN [num |-> a \div g, den |-> b \div g]

\* A ratio computed the wrong way round.
ratioOfInverted(compressedSize, originalSize) ==
    Quotient(originalSize, compressedSize)

\* const ratio = compressedSize / originalSize;
ratioOf(compressedSize, originalSize) == Quotient(compressedSize, originalSize)

RECURSIVE Pow10(_)
Pow10(n) == IF n = 0 THEN 1 ELSE 10 * Pow10(n - 1)

\* Number(value).toFixed(fractionDigits): the decimal with that many
\* fraction digits nearest to value, as its digits without the point.
formatNumber(value, fractionDigits) ==
    IF value.den = 0
    THEN [text |-> IF value.num = 0 THEN "NaN" ELSE "Infinity",
          digits |-> 0, fractionDigits |-> fractionDigits]
    ELSE [text |-> "fixed",
          digits |-> (2 * value.num * Pow10(fractionDigits) + value.den)
                        \div (2 * value.den),
          fractionDigits |-> fractionDigits]

\* ------------------------------------------------------- chart and report

titleSuffix ==
    <<" ","C","o","m","p","r","e","s","s","i","o","n"," ","R","a","t","i","o">>

\* algorithm.name.toUpperCase()
toUpperCaseName(name) ==
    CASE name = "gzip" -> "GZIP"
      [] name = "brotli" -> "BROTLI"
      [] name = "zstd" -> "ZSTD"
      [] name = "stub" -> "STUB"

\* generateChart: the renderer is outside the repository; the SVG it
\* returns is identified with the configuration it is rendered from.
generateChart(fileResult) ==
    [title |-> fileResult.displayName \o titleSuffix,
     datasets |->
        [a \in 1..Len(fileResult.algorithms) |->
            [label |-> toUpperCaseName(fileResult.algorithms[a].name),
             data |->
                [i \in 1..Len(fileResult.algorithms[a].measurements) |->
                    [x |-> fileResult.algorithms[a].measurements[i].level,
                     y |-> fileResult.algorithms[a].measurements[i].ratio]]]]]

\* path.join(chartsDir, `${slugify(file.displayName)}.svg`)
chartPathOf(displayName) ==
    Join(<<chartsDir, slugify(displayName) \o <<".","s","v","g">> >>, Slash)

\* The table rows of one result: the two nested for loops of the report.
RECURSIVE reportRows(_)
reportRows(algorithmList) ==
    IF Len(algorithmList) = 0 THEN <<>>
    ELSE LET algorithm == algorithmList[1]
         IN  [i \in 1..Len(algorithm.measurements) |->
                [algorithm |-> algorithm.name,
                 level |-> algorithm.measurements[i].level,
                 time |-> formatNumber(algorithm.measurements[i].time, 3),
                 size |-> algorithm.measurements[i].size,
                 ratio |-> formatNumber(algorithm.measurements[i].ratio, 4)]]
             \o reportRows(Tail(algorithmList))

\* readmeLines: one section per entry of results, in the order of results.
\* The title and the "Last updated" line are the same in every report and
\* are left out.
readmeSections(resultList) ==
    [k \in 1..Len(resultList) |->
        [heading |-> resultList[k].displayName,
         originalSize |-> resultList[k].originalSize,
         chartAlt |-> resultList[k].displayName,
         chartPath |-> resultList[k].chartPath,
         rows |-> reportRows(resultList[k].algorithms)]]

\* ------------------------------------------------------------------- state

VARIABLES
    script,           \* "part_000" (the resolving script) or "benchmark"
    specs,            \* the artifact specs the files array is declared with
    registry,         \* the algorithms array
    fs,               \* the input files that exist (absolute paths)
    zstdAvailable,    \* typeof zlib.zstdCompressSync === 'function'
    pc,               \* where the process is
    files,            \* the files array, as far as it is built
    fileIdx,          \* for (const file of files): index of file
    originalBuffer,   \* <<buffer>> once read, <<>> before
    originalSize,
    algorithmResults,
    measurements,
    ai,               \* for (const algorithm of algorithms): index
    li,               \* for (const level of algorithm.levels): index
    chartSvg,         \* <<svg>> once rendered, <<>> before
    results,
    charts,           \* chart files written: path -> content
    readme,           \* <<sections>> once README.md is written, <<>> before
    error,            \* <<error>> main's promise is rejected with
    stderr,           \* what was written to the error stream
    exitCode,         \* process.exitCode (0 while unset)
    calls             \* history: the compress invocations, in order

config == <<script, specs, registry, fs, zstdAvailable>>

locals == <<originalBuffer, originalSize, algorithmResults, measurements,
            ai, li, chartSvg>>

vars == <<script, specs, registry, fs, zstdAvailable, pc, files, fileIdx,
          originalBuffer, originalSize, algorithmResults, measurements, ai, li,
          chartSvg, results, charts, readme, error, stderr, exitCode, calls>>

\* Lists of 1..MaxFiles artifact specs with pairwise distinct ids.
SpecLists ==
    UNION { { l \in [1..n -> ArtifactSpecs] :
                \A i, j \in 1..n : i # j => l[i].id # l[j].id } :
            n \in 1..MaxFiles }

\* The paths a run looks at: every package's package.json and every
\* candidate below the package root.
candidatePaths(spec) ==
    { resolvePackageFile(spec.packageName, c.pathSegments) :
        c \in { d \in { declaredCandidates(spec)[i] :
                          i \in 1..Len(declaredCandidates(spec)) } : isTruthy(d) } }

\* Filesystem states: any set of candidate files, inside installed packages
\* (a package directory that holds a file holds its package.json).
FsStates(list) ==
    LET packages == { list[i].packageName : i \in 1..Len(list) }
        all == UNION { candidatePaths(list[i]) : i \in 1..Len(list) }
                 \cup { requireResolvePath(p) : p \in packages }
    IN  { s \in SUBSET all :
            \A i \in 1..Len(list) :
                candidatePaths(list[i]) \cap s # {}
                    => packageInstalled(s, list[i].packageName) }

InitWith(registries) ==
    /\ script \in {"part_000", "benchmark"}
    /\ specs \in SpecLists
    /\ registry \in registries
    /\ fs \in FsStates(specs)
    /\ zstdAvailable \in BOOLEAN
    /\ pc = "load"
    /\ files = <<>>
    /\ fileIdx = 0
    /\ originalBuffer = <<>>
    /\ originalSize = 0
    /\ algorithmResults = <<>>
    /\ measurements = <<>>
    /\ ai = 0
    /\ li = 0
    /\ chartSvg = <<>>
    /\ results = <<>>
    /\ charts = [p \in {} |-> <<>>]
    /\ readme = <<>>
    /\ error = <<>>
    /\ stderr = <<>>
    /\ exitCode = 0
    /\ calls = <<>>

Init == InitWith({algorithms})

InitSweep == InitWith({algorithms, stubAlgorithms})

\* ----------------------------------------------------------------- helpers

\* An exception nobody catches during module load: Node writes it to the
\* error stream and the process exits with status 1.
Uncaught(e) ==
    /\ stderr' = Append(stderr, e)
    /\ exitCode' = 1
    /\ pc' = "exited"

\* A statement of main throws: nothing in main catches (the one try block
\* rethrows), so main's promise is rejected with the error.
Reject(e) ==
    /\ error' = <<e>>
    /\ pc' = "rejected"

\* A handler that reports the error and leaves process.exitCode alone.
mainCatchLogOnly(e) == [stderr |-> <<e>>, exitCode |-> 0]

\* main().catch((error) => { console.error(error); process.exitCode = 1; })
mainCatch(e) == [stderr |-> <<e>>, exitCode |-> 1]

\* A file loop that stops one artifact early.
moreFilesButLast(idx, list) == idx < Len(list)

\* for (const file of files): whether the loop has another file.
moreFiles(idx, list) == idx <= Len(list)

\* A level loop that walks the levels from the top.
levelAtDescending(algorithm, index) ==
    algorithm.levels[Len(algorithm.levels) - index + 1]

\* for (const level of algorithm.levels): the level of the index-th turn.
levelAt(algorithm, index) == algorithm.levels[index]

\* results.unshift instead of results.push.
pushResultFront(list, entry) == <<entry>> \o list

\* results.push({ ...fileResult, chartPath })
pushResult(list, entry) == Append(list, entry)

\* const fileResult = { id, displayName, originalSize, algorithms }
fileResultOf(file, size, algorithmList) ==
    [id |-> file.id,
     displayName |-> file.displayName,
     originalSize |-> size,
     algorithms |-> algorithmList]

\* ----------------------------------------------------------- module load

\* if (typeof zlib.zstdCompressSync !== 'function') throw ...
ZstdCheck ==
    /\ pc = "load"
    /\ zstdAvailable
    /\ pc' = "files"
    /\ UNCHANGED <<config, locals, files, fileIdx, results, charts, readme,
                   error, stderr, exitCode, calls>>

ZstdCheckThrows ==
    /\ pc = "load"
    /\ ~zstdAvailable
    /\ Uncaught(MakeError("Zstandard compression requires Node.js v22 or later.",
                          <<>>, <<>>))
    /\ UNCHANGED <<config, locals, files, fileIdx, results, charts, readme,
                   error, calls>>

\* One createPackageFile call of the files array literal returns; after the
\* last one the module goes on to call main().
LoadFile ==
    /\ pc = "files"
    /\ script = "part_000"
    /\ Len(files) < Len(specs)
    /\ LET r == createPackageFile(specs[Len(files) + 1], fs)
       IN  /\ r.ok
           /\ files' = Append(files, r.file)
           /\ pc' = IF Len(files) + 1 = Len(specs) THEN "main" ELSE "files"
    /\ UNCHANGED <<config, locals, fileIdx, results, charts, readme,
                   error, stderr, exitCode, calls>>

\* One createPackageFile call throws while the files array is built.
LoadFileThrows ==
    /\ pc = "files"
    /\ script = "part_000"
    /\ Len(files) < Len(specs)
    /\ LET r == createPackageFile(specs[Len(files) + 1], fs)
       IN  /\ ~r.ok
           /\ Uncaught(r.error)
    /\ UNCHANGED <<config, locals, files, fileIdx, results, charts, readme,
                   error, calls>>

\* scripts/benchmark.js: the files array is a literal of fixed paths.
LoadStaticFiles ==
    /\ pc = "files"
    /\ script = "benchmark"
    /\ files' = [k \in 1..Len(specs) |-> benchmarkFile(specs[k])]
    /\ pc' = "main"
    /\ UNCHANGED <<config, locals, fileIdx, results, charts, readme,
                   error, stderr, exitCode, calls>>

\* -------------------------------------------------------------------- main

\* if (!fs.existsSync(chartsDir)) fs.mkdirSync(...); const results = [];
MainStart ==
    /\ pc = "main"
    /\ results' = <<>>
    /\ fileIdx' = 1
    /\ pc' = "file"
    /\ UNCHANGED <<config, locals, files, charts, readme, error, stderr,
                   exitCode, calls>>

MkdirThrows ==
    /\ pc = "main"
    /\ Reject(MakeError("mkdirSync failed", chartsDir, <<>>))
    /\ UNCHANGED <<config, locals, files, fileIdx, results, charts, readme,
                   stderr, exitCode, calls>>

\* ensureFile(absolutePath) returns.
EnsureFile ==
    /\ pc = "file"
    /\ moreFiles(fileIdx, files)
    /\ fileAbsolutePath(files[fileIdx]) \in fs
    /\ pc' = "read"
    /\ UNCHANGED <<config, locals, files, fileIdx, results, charts, readme,
                   error, stderr, exitCode, calls>>

EnsureFileThrows ==
    /\ pc = "file"
    /\ moreFiles(fileIdx, files)
    /\ fileAbsolutePath(files[fileIdx]) \notin fs
    /\ Reject(MakeError("Required file not found:",
                        fileAbsolutePath(files[fileIdx]), <<>>))
    /\ UNCHANGED <<config, locals, files, fileIdx, results, charts, readme,
                   stderr, exitCode, calls>>

\* const originalBuffer = fs.readFileSync(absolutePath);
\* const originalSize = originalBuffer.length; const algorithmResults = [];
ReadFile ==
    /\ pc = "read"
    /\ \E buffer \in Buffers :
          /\ originalBuffer' = <<buffer>>
          /\ originalSize' = buffer.length
    /\ algorithmResults' = <<>>
    /\ ai' = 1
    /\ pc' = "algorithm"
    /\ UNCHANGED <<config, measurements, li, chartSvg, files, fileIdx, results,
                   charts, readme, error, stderr, exitCode, calls>>

ReadFileThrows ==
    /\ pc = "read"
    /\ Reject(MakeError("readFileSync failed",
                        fileAbsolutePath(files[fileIdx]), <<>>))
    /\ UNCHANGED <<config, locals, files, fileIdx, results, charts, readme,
                   stderr, exitCode, calls>>

\* for (const algorithm of algorithms) { const measurements = [];
AlgorithmBegin ==
    /\ pc = "algorithm"
    /\ ai <= Len(registry)
    /\ measurements' = <<>>
    /\ li' = 1
    /\ pc' = "level"
    /\ UNCHANGED <<config, originalBuffer, originalSize, algorithmResults, ai,
                   chartSvg, files, fileIdx, results, charts, readme, error,
                   stderr, exitCode, calls>>

\* One turn of the level loop: compress, measure, measurements.push.
Compress ==
    /\ pc = "level"
    /\ li <= Len(registry[ai].levels)
    /\ LET algorithm == registry[ai]
           level == levelAt(algorithm, li)
           compressedSize ==
               compressedLength(algorithm.name, originalBuffer[1], level)
           durationMs ==
               Quotient(elapsedMicros(algorithm.name, originalBuffer[1], level),
                        1000)
       IN  /\ measurements' =
                 Append(measurements,
                        [level |-> level,
                         time |-> durationMs,
                         size |-> compressedSize,
                         ratio |-> ratioOf(compressedSize, originalSize)])
           /\ calls' = Append(calls, <<fileIdx, algorithm.name, level>>)
    /\ li' = li + 1
    /\ UNCHANGED <<config, originalBuffer, originalSize, algorithmResults, ai,
                   chartSvg, pc, files, fileIdx, results, charts, readme, error,
                   stderr, exitCode>>

\* algorithm.compress throws.
CompressThrows ==
    /\ pc = "level"
    /\ li <= Len(registry[ai].levels)
    /\ calls' = Append(calls,
                       <<fileIdx, registry[ai].name, levelAt(registry[ai], li)>>)
    /\ Reject(MakeError("compress failed", <<>>, <<>>))
    /\ UNCHANGED <<config, locals, files, fileIdx, results, charts, readme,
                   stderr, exitCode>>

\* algorithmResults.push({ name, measurements }); next algorithm.
AlgorithmEnd ==
    /\ pc = "level"
    /\ li > Len(registry[ai].levels)
    /\ algorithmResults' =
          Append(algorithmResults,
                 [name |-> registry[ai].name, measurements |-> measurements])
    /\ measurements' = <<>>
    /\ ai' = ai + 1
    /\ li' = 0
    /\ pc' = "algorithm"
    /\ UNCHANGED <<config, originalBuffer, originalSize, chartSvg, files,
                   fileIdx, results, charts, readme, error, stderr, exitCode,
                   calls>>

\* fileResult is assembled; chartSvg = await generateChart(fileResult);
GenerateChart ==
    /\ pc = "algorithm"
    /\ ai > Len(registry)
    /\ chartSvg' = <<generateChart(fileResultOf(files[fileIdx], originalSize,
                                                algorithmResults))>>
    /\ pc' = "writeChart"
    /\ UNCHANGED <<config, originalBuffer, originalSize, algorithmResults,
                   measurements, ai, li, files, fileIdx, results, charts, readme,
                   error, stderr, exitCode, calls>>

\* catch (error) { console.error(`  Failed to generate chart ...`); throw error; }
GenerateChartThrows ==
    /\ pc = "algorithm"
    /\ ai > Len(registry)
    /\ stderr' = Append(stderr,
                        MakeError("Failed to generate chart for",
                                  files[fileIdx].displayName, <<>>))
    /\ Reject(MakeError("render failed", <<>>, <<>>))
    /\ UNCHANGED <<config, locals, files, fileIdx, results, charts, readme,
                   exitCode, calls>>

\* fs.writeFileSync(chartPath, chartSvg); results.push(...); next file.
WriteChart ==
    /\ pc = "writeChart"
    /\ LET file == files[fileIdx]
           chartPath == chartPathOf(file.displayName)
           entry == [id |-> file.id,
                     displayName |-> file.displayName,
                     originalSize |-> originalSize,
                     algorithms |-> algorithmResults,
                     chartPath |-> relativeToRepoRoot(chartPath)]
       IN  /\ charts' = [p \in DOMAIN charts \cup {chartPath} |->
                            IF p = chartPath THEN chartSvg[1] ELSE charts[p]]
           /\ results' = pushResult(results, entry)
    /\ fileIdx' = fileIdx + 1
    /\ originalBuffer' = <<>>
    /\ originalSize' = 0
    /\ algorithmResults' = <<>>
    /\ ai' = 0
    /\ chartSvg' = <<>>
    /\ pc' = "file"
    /\ UNCHANGED <<config, measurements, li, files, readme, error, stderr,
                   exitCode, calls>>

WriteChartThrows ==
    /\ pc = "writeChart"
    /\ Reject(MakeError("writeFileSync failed",
                        chartPathOf(files[fileIdx].displayName), <<>>))
    /\ UNCHANGED <<config, locals, files, fileIdx, results, charts, readme,
                   stderr, exitCode, calls>>

\* After the file loop: the report is assembled from results and written;
\* main's promise resolves and the process ends.
WriteReadme ==
    /\ pc = "file"
    /\ ~moreFiles(fileIdx, files)
    /\ readme' = <<readmeSections(results)>>
    /\ pc' = "exited"
    /\ UNCHANGED <<config, locals, files, fileIdx, results, charts, error,
                   stderr, exitCode, calls>>

WriteReadmeThrows ==
    /\ pc = "file"
    /\ ~moreFiles(fileIdx, files)
    /\ Reject(MakeError("writeFileSync failed", readmePath, <<>>))
    /\ UNCHANGED <<config, locals, files, fileIdx, results, charts, readme,
                   stderr, exitCode, calls>>

\* main().catch(...): the rejection handler runs, then the process ends.
MainCatch ==
    /\ pc = "rejected"
    /\ stderr' = stderr \o mainCatch(error[1]).stderr
    /\ exitCode' = mainCatch(error[1]).exitCode
    /\ pc' = "exited"
    /\ UNCHANGED <<config, locals, files, fileIdx, results, charts, readme,
                   error, calls>>

Next ==
    \/ ZstdCheck
    \/ ZstdCheckThrows
    \/ LoadFile
    \/ LoadFileThrows
    \/ LoadStaticFiles
    \/ MainStart
    \/ MkdirThrows
    \/ EnsureFile
    \/ EnsureFileThrows
    \/ ReadFile
    \/ ReadFileThrows
    \/ AlgorithmBegin
    \/ Compress
    \/ CompressThrows
    \/ AlgorithmEnd
    \/ GenerateChart
    \/ GenerateChartThrows
    \/ WriteChart
    \/ WriteChartThrows
    \/ WriteReadme
    \/ WriteReadmeThrows
    \/ MainCatch

Spec == Init /\ [][Next]_vars

SpecSweep == InitSweep /\ [][Next]_vars

\* ------------------------------------------------------------ properties

\* The absolute path of a declared candidate: the package directory below
\* repoRoot/node_modules followed by the candidate's path segments.
DeclaredPath(spec, candidate) ==
    Join(<<repoRoot, nodeModules, spec.packageName>> \o candidate.pathSegments,
         Slash)

\* The positions of a spec's declared candidates that hold a candidate.
DeclaredIndices(spec) ==
    { i \in 1..Len(declaredCandidates(spec)) :
        isTruthy(declaredCandidates(spec)[i]) }

SomeCandidateExists(spec) ==
    \E i \in DeclaredIndices(spec) :
        DeclaredPath(spec, declaredCandidates(spec)[i]) \in fs

\* Module load stopped while resolving the k-th spec.
LoadStoppedAt(k) ==
    /\ script = "part_000"
    /\ zstdAvailable
    /\ pc = "exited"
    /\ Len(files) = k - 1
    /\ k <= Len(specs)

\* C1: in the resolving script, every resolved artifact's absolutePath is
\* the path of an existing declared candidate and no candidate declared
\* before it exists; and resolution of a spec never fails while one of its
\* candidates exists.
C1_FirstExistingCandidate ==
    script = "part_000" =>
        /\ \A k \in 1..Len(files) :
              \E i \in DeclaredIndices(specs[k]) :
                 LET d == declaredCandidates(specs[k])
                 IN  /\ DeclaredPath(specs[k], d[i]) \in fs
                     /\ files[k].absolutePath = DeclaredPath(specs[k], d[i])
                     /\ \A j \in DeclaredIndices(specs[k]) :
                           j < i => DeclaredPath(specs[k], d[j]) \notin fs
        /\ \A k \in 1..Len(specs) :
              LoadStoppedAt(k) => ~SomeCandidateExists(specs[k])

\* A spec with two candidates of which both exist was resolved to the first,
\* and one of which only the second exists was resolved to the second.
C1_Witness ==
    /\ script = "part_000"
    /\ Len(files) = 2
    /\ specs[1] = SpecNoto
    /\ specs[2] = SpecTailwind
    /\ DeclaredPath(SpecNoto, SpecNoto.candidates[1]) \notin fs
    /\ files[1].absolutePath = DeclaredPath(SpecNoto, SpecNoto.candidates[2])
    /\ DeclaredPath(SpecTailwind, SpecTailwind.candidates[2]) \in fs
    /\ files[2].absolutePath =
          DeclaredPath(SpecTailwind, SpecTailwind.candidates[1])

\* C2: the display name of a resolved artifact is the winning candidate's
\* own displayName when it declares one, and otherwise the displayName at
\* the top level of the spec (for specs that declare one of the two).
C2_DisplayNameDefault ==
    script = "part_000" =>
        \A k \in 1..Len(files) :
           \A i \in DeclaredIndices(specs[k]) :
              LET c == declaredCandidates(specs[k])[i]
              IN  files[k].absolutePath = DeclaredPath(specs[k], c) =>
                    IF "displayName" \in DOMAIN c
                    THEN files[k].displayName = c.displayName
                    ELSE "displayName" \in DOMAIN specs[k]
                            => files[k].displayName = specs[k].displayName

\* C3: when no candidate of a spec exists, installed package or not,
\* resolution returns nothing and fails with the error that lists every
\* declared candidate path in declared order.
C3_NotFoundListsCandidates ==
    \A k \in 1..Len(specs) :
       (script = "part_000" /\ ~SomeCandidateExists(specs[k])) =>
          /\ Len(files) < k
          /\ LoadStoppedAt(k) =>
                LET d == SelectSeq(declaredCandidates(specs[k]), isTruthy)
                IN  stderr =
                      << [kind |-> "Required file not found for",
                          subject |-> specs[k].packageName,
                          tried |->
                             [i \in 1..Len(d) |->
                                Join(<<specs[k].packageName>> \o d[i].pathSegments,
                                     Slash)]] >>

\* The levels of an algorithm result, in the order measured.
LevelsOf(algorithmResult) ==
    [i \in 1..Len(algorithmResult.measurements) |->
        algorithmResult.measurements[i].level]

\* C4: every FileResult has exactly the three algorithm results gzip,
\* brotli, zstd in that order, with levels 1..9, 0..11 and 1..22 ascending,
\* each once.
C4_LevelsPerAlgorithm ==
    \A k \in 1..Len(results) :
       LET A == results[k].algorithms
       IN  /\ Len(A) = 3
           /\ A[1].name = "gzip"
           /\ LevelsOf(A[1]) = [i \in 1..9 |-> i]
           /\ A[2].name = "brotli"
           /\ LevelsOf(A[2]) = [i \in 1..12 |-> i - 1]
           /\ A[3].name = "zstd"
           /\ LevelsOf(A[3]) = [i \in 1..22 |-> i]

\* A run assembled the FileResults of two artifacts and wrote the report.
C4_Witness ==
    /\ Len(results) = 2
    /\ readme # <<>>
    /\ Len(results[2].algorithms[3].measurements) = 22

\* ratio == size / original, with ratio > 0 when original > 0.
RatioIs(m, original) ==
    /\ m.ratio.num * original = m.size * m.ratio.den
    /\ original > 0 => (m.ratio.num > 0 /\ m.ratio.den > 0)

\* C5: every measurement's size is the length compress returned for its
\* (algorithm, level) on the buffer read before the sweep, its ratio is
\* size / originalSize and is positive when originalSize > 0; the stub
\* registry on a 1000-byte buffer yields ratios 0.5, 0.4, 0.3 in order.
C5_SizeAndRatio ==
    /\ \A i \in 1..Len(measurements) :
          /\ measurements[i].size =
                compressedLength(registry[ai].name, originalBuffer[1],
                                 measurements[i].level)
          /\ RatioIs(measurements[i], originalBuffer[1].length)
    /\ \A a \in 1..Len(algorithmResults) :
          \A i \in 1..Len(algorithmResults[a].measurements) :
             LET m == algorithmResults[a].measurements[i]
             IN  /\ m.size = compressedLength(algorithmResults[a].name,
                                              originalBuffer[1], m.level)
                 /\ RatioIs(m, originalBuffer[1].length)
    /\ \A k \in 1..Len(results) :
          /\ \A a \in 1..Len(results[k].algorithms) :
                \A i \in 1..Len(results[k].algorithms[a].measurements) :
                   RatioIs(results[k].algorithms[a].measurements[i],
                           results[k].originalSize)
          /\ (registry = stubAlgorithms /\ results[k].originalSize = 1000) =>
                [i \in 1..Len(results[k].algorithms[1].measurements) |->
                    results[k].algorithms[1].measurements[i].ratio]
                  = << [num |-> 1, den |-> 2], [num |-> 2, den |-> 5],
                       [num |-> 3, den |-> 10] >>

\* The stub registry swept a 1000-byte buffer: sizes 500, 400, 300.
C5_Witness ==
    /\ registry = stubAlgorithms
    /\ Len(results) >= 1
    /\ results[1].originalSize = 1000
    /\ [i \in 1..3 |-> results[1].algorithms[1].measurements[i].size]
          = <<500, 400, 300>>

\* C6: results always holds the artifacts processed so far in declaration
\* order, and a written report has one section per configured artifact, the
\* k-th section being the k-th declared artifact's.
C6_DeclarationOrder ==
    /\ Len(results) <= Len(specs)
    /\ \A k \in 1..Len(results) : results[k].id = specs[k].id
    /\ readme # <<>> =>
          /\ Len(results) = Len(specs)
          /\ Len(readme[1]) = Len(specs)
          /\ \A k \in 1..Len(specs) :
                /\ files[k].id = specs[k].id
                /\ readme[1][k].heading = files[k].displayName
                /\ readme[1][k].originalSize = results[k].originalSize

\* A report of two artifacts, the first taking longer than the second
\* (1000 bytes against none).
C6_Witness ==
    /\ readme # <<>>
    /\ Len(readme[1]) = 2
    /\ readme[1][1].originalSize = 1000
    /\ readme[1][2].originalSize = 0

\* The number of (algorithm, level) pairs of the registry.
RECURSIVE PairCount(_)
PairCount(list) ==
    IF Len(list) = 0 THEN 0 ELSE Len(list[1].levels) + PairCount(Tail(list))

\* C7: a written report means no step failed: every configured artifact was
\* resolved, swept over every (algorithm, level) pair, charted and has its
\* section with all rows; and once any step has failed no report exists.
C7_ReportOnlyWhenComplete ==
    /\ readme # <<>> =>
          /\ error = <<>>
          /\ stderr = <<>>
          /\ exitCode = 0
          /\ Len(files) = Len(specs)
          /\ Len(readme[1]) = Len(specs)
          /\ Len(calls) = Len(specs) * PairCount(registry)
          /\ \A k \in 1..Len(readme[1]) :
                /\ Len(readme[1][k].rows) = PairCount(registry)
                /\ Join(<<repoRoot, readme[1][k].chartPath>>, Slash)
                      \in DOMAIN charts
    /\ (error # <<>> \/ stderr # <<>> \/ exitCode # 0) => readme = <<>>

\* A run failed on its second artifact after the first was complete and
\* ended without a report.
C7_Witness ==
    /\ pc = "exited"
    /\ Len(results) = 1
    /\ Len(specs) = 2
    /\ error # <<>>
    /\ error[1].kind = "compress failed"
    /\ readme = <<>>

\* C8: a process that ended without writing the report ended with a
\* non-zero exit status and the causing error last on the error stream; one
\* that wrote it ended with status zero.
C8_ExitStatus ==
    pc = "exited" =>
        IF readme # <<>>
        THEN exitCode = 0 /\ error = <<>>
        ELSE /\ exitCode # 0
             /\ Len(stderr) >= 1
             /\ error # <<>> => stderr[Len(stderr)] = error[1]
             /\ error = <<>> =>
                   stderr[Len(stderr)].kind \in
                       {"Cannot find module", "Required file not found for",
                        "Zstandard compression requires Node.js v22 or later."}

\* A chart render error ended the process.
C8_Witness ==
    /\ pc = "exited"
    /\ error # <<>>
    /\ error[1].kind = "render failed"
    /\ exitCode = 1

\* The invocations one artifact's sweep makes, from the registry as
\* declared.
RECURSIVE SweepCalls(_, _)
SweepCalls(f, list) ==
    IF Len(list) = 0 THEN <<>>
    ELSE [i \in 1..Len(list[1].levels) |-> <<f, list[1].name, list[1].levels[i]>>]
         \o SweepCalls(f, Tail(list))

RECURSIVE RunCalls(_)
RunCalls(n) ==
    IF n = 0 THEN <<>> ELSE RunCalls(n - 1) \o SweepCalls(n, registry)

\* C9: the compress invocations so far are an initial part of: for each
\* artifact in turn, for each algorithm in registry order, each declared
\* level once in declared order; an artifact in results has had all of its
\* invocations.
C9_OneCallPerPairInOrder ==
    /\ Len(calls) <= Len(specs) * PairCount(registry)
    /\ calls = SubSeq(RunCalls(Len(specs)), 1, Len(calls))
    /\ Len(calls) >= Len(results) * PairCount(registry)
    /\ \A i \in 1..Len(registry) :
          \A j \in 1..(Len(registry[i].levels) - 1) :
             registry[i].levels[j] < registry[i].levels[j + 1]

\* Two artifacts were swept completely.
C9_Witness ==
    /\ readme # <<>>
    /\ Len(specs) = 2
    /\ Len(calls) = 86

\* C10: when the report is written for artifacts with pairwise distinct
\* display names, every section's chart path names a file that holds the
\* chart rendered from that artifact's own result, and the chart paths are
\* pairwise distinct.
C10_ChartPerArtifact ==
    (/\ readme # <<>>
     /\ \A k, l \in 1..Len(files) :
           k # l => files[k].displayName # files[l].displayName) =>
        /\ \A k \in 1..Len(results) :
              LET path == Join(<<repoRoot, readme[1][k].chartPath>>, Slash)
              IN  /\ path \in DOMAIN charts
                  /\ charts[path] =
                        generateChart(fileResultOf(files[k],
                                                   results[k].originalSize,
                                                   results[k].algorithms))
        /\ \A k, l \in 1..Len(results) :
              k # l => readme[1][k].chartPath # readme[1][l].chartPath

====
